---- MODULE Spec2Model ----
(***************************************************************************)
(* Model of the tool-execution engine of livex: execute_tool (src/api.py)  *)
(* with its helpers in src/utils.py and src/cal_utils.py.                  *)
(*                                                                         *)
(* Time is counted in minutes since an epoch; a calendar day is the        *)
(* integer quotient by 1440.  One dispatch runs from the entry of          *)
(* execute_tool to its return (or to the exception that leaves it); the    *)
(* only points where the environment acts are the blocking HTTP calls.     *)
(***************************************************************************)
EXTENDS Integers, Sequences, FiniteSets, TLC

VARIABLES
    pc,            \* position of the dispatch: idle, a wait_* point, returned, raised
    clock,         \* wall clock (UTC minutes), read by datetime.now
    timezone,      \* st.session_state.timezone
    tool_call,     \* [name, arguments, args] of the dispatch in flight
    user_input,    \* raw user text passed to execute_tool
    locals,        \* local variables of the handler that outlive a blocking call
    params,        \* the params dict of the slot request (one mutable object)
    body,          \* the body dict of a POST (one mutable object)
    cal_api_debug, \* the cal_api_debug dict (debug_info["cal_api"] is the same object)
    debug_info,    \* the trace returned as third component
    result,        \* [message, error] once returned, [exception] once raised
    net            \* HTTP requests issued by this dispatch, as the network saw them

vars == <<pc, clock, timezone, tool_call, user_input, locals, params, body,
          cal_api_debug, debug_info, result, net>>

----------------------------------------------------------------------------
(* Bounds of the model *)

\* largest advance of the wall clock between two reads of datetime.now
MaxTick == 1
\* start dates and end dates range over today-DaySpan .. today+DaySpan
DaySpan == 2

----------------------------------------------------------------------------
(* Program constants *)

MAX_DURATION_SECONDS == 31536000
MinNoticeMinutes == 120
FallbackEventTypeId == 3854203
DefaultDurationSeconds == 86400
WeekSeconds == 604800
MonthSeconds == 2592000
MinutesPerDay == 24 * 60
SecondsPerDay == 24 * 60 * 60
AltStartDays == 7
AltEndDays == 14

EVENT_SLUG == "30min"
USERNAME == "michaelhuo"
CAL_API_KEY == "cal_live_0123456789abcdef"

\* f"Bearer {CAL_API_KEY}", the Authorization header of every request
authorization_header == "Bearer " \o CAL_API_KEY

\* generate_curl_command, lines 17-19: f"Bearer {value[7:17]}..."
mask_authorization(value) ==
    "Bearer " \o SubSeq(value, 8, IF Len(value) < 17 THEN Len(value) ELSE 17) \o "..."

\* a key that a dict does not hold (dict.get returns its default, or None)
Absent == "<absent>"
\* the text Python's getattr(e.response, 'text', 'N/A') yields without a response
NA == "N/A"

----------------------------------------------------------------------------
(* Dict helpers *)

Put(d, k, v) == [x \in (DOMAIN d) \cup {k} |-> IF x = k THEN v ELSE d[x]]
Del(d, k) == [x \in (DOMAIN d) \ {k} |-> d[x]]
Has(d, k) == k \in DOMAIN d
EmptyDict == [x \in {} |-> Absent]

Get(d, k, default) == IF Has(d, k) THEN d[k] ELSE default
\* a dict holding key k when the option o (<<>> or <<v>>) holds a value
Opt(k, o) == IF Len(o) = 0 THEN EmptyDict ELSE (k :> o[1])

----------------------------------------------------------------------------
(* Time, timezones and date texts *)

\* the timezones a session can select (a sample of timezone_options)
Timezones == {"America/Los_Angeles", "Pacific/Guam"}

\* offset from UTC, in minutes, that astimezone(tz) / datetime.now(tz) applies
utcoffset(tz) == IF tz = "America/Los_Angeles" THEN 0 - 480 ELSE 600

\* offset that datetime.replace(tzinfo=tz) attaches for a pytz zone: the zone's
\* first (local mean time) entry, not the offset in force
lmtoffset(tz) == IF tz = "America/Los_Angeles" THEN 0 - 473 ELSE 0 - 861

DayOf(t) == t \div MinutesPerDay

\* the wall clock at the start of a run: 02:00 UTC and 23:59 UTC of day 5, so
\* that the local date is behind UTC in one zone and ahead of it in the other
ClockStarts == {5 * MinutesPerDay + 120, 5 * MinutesPerDay + 1439}

\* strftime("%Y-%m-%dT%H:%M:%SZ") of an instant, and dateutil's parse of it
strftime_iso(t) == [date |-> t \div MinutesPerDay, hm |-> t % MinutesPerDay, z |-> TRUE]
dtparse_iso(s) == s.date * MinutesPerDay + s.hm

\* Date texts.  kind "iso": zero-padded YYYY-MM-DD.  kind "unpadded": a date
\* written without zero padding (2025-11-3), which strptime("%Y-%m-%d") reads
\* but which as a string is not below a zero-padded date of the same month
\* whose day starts with 0.  kind "other": a date in another notation that
\* dateutil reads and strptime("%Y-%m-%d") does not.  The rest are not dates.
DateText(kind, day) == [kind |-> kind, day |-> day]
IsoDate(day) == DateText("iso", day)
EmptyText == DateText("empty", 0)

\* datetime.strptime(s, "%Y-%m-%d") succeeds
strptime_ok(s) == s.kind \in {"iso", "unpadded"}
\* dateutil.parser.parse(s) succeeds
dtparser_ok(s) == s.kind \in {"iso", "unpadded", "other"}
\* the string comparison date_str < today_str of validate_date
date_str_less(date_str, today) == date_str.kind = "iso" /\ date_str.day < today

\* validate_date(date_str, default_date); now_local is datetime.now(local_tz)
validate_date(date_str, default_date, now_local) ==
    IF ~strptime_ok(date_str) THEN default_date
    ELSE IF date_str_less(date_str, DayOf(now_local)) THEN default_date
    ELSE date_str

validate_duration_seconds_lo(seconds) ==
    IF seconds.kind # "int" THEN MAX_DURATION_SECONDS
    ELSE IF seconds.n < 1 THEN 1
    ELSE IF seconds.n > MAX_DURATION_SECONDS THEN MAX_DURATION_SECONDS
    ELSE seconds.n

\* validate_duration_seconds(seconds); a duration value is [kind, n] with kind
\* "int" or "text" (a string int() rejects)
validate_duration_seconds(seconds) ==
    IF seconds.kind # "int" THEN MAX_DURATION_SECONDS
    ELSE IF seconds.n < 1 THEN MAX_DURATION_SECONDS
    ELSE IF seconds.n > MAX_DURATION_SECONDS THEN MAX_DURATION_SECONDS
    ELSE seconds.n

IntVal(n) == [kind |-> "int", n |-> n]
TextVal == [kind |-> "text", n |-> 0]

\* the date n seconds after midnight of a day
plus_seconds(day, seconds) == day + (seconds \div SecondsPerDay)

\* Raw user texts, as word sequences; s.lower() and the substring tests
Lower(w) == CASE w = "Tomorrow" -> "tomorrow" [] w = "Week" -> "week" [] OTHER -> w
contains(text, phrase) ==
    \E i \in 1..Len(text) :
        /\ i + Len(phrase) - 1 <= Len(text)
        /\ \A j \in 1..Len(phrase) : Lower(text[i + j - 1]) = phrase[j]

UserTexts == { <<>>, <<"show", "my", "slots">>, <<"slots", "this", "Week">>,
               <<"next", "month">>, <<"Tomorrow">> }

----------------------------------------------------------------------------
(* The remote service as seen through requests *)

HttpOk(data) == [ok |-> TRUE, data |-> data]

\* an HTTP error response (raise_for_status raises HTTPError carrying it)
HttpError(c, b) == [ok |-> FALSE, has_response |-> TRUE, status_code |-> c, text |-> b]
HttpErrors == {HttpError(404, "event type not found"), HttpError(500, "internal error")}
\* a timeout or connection failure: a RequestException whose response is None
TransportError == [ok |-> FALSE, has_response |-> FALSE, status_code |-> 0, text |-> ""]
Failures == HttpErrors \cup {TransportError}

status_is_404_or_none(e) == ~e.has_response \/ e.status_code = 404
\* getattr(e.response, 'status_code', 'N/A') == 404
status_is_404(e) == e.has_response /\ e.status_code = 404
\* getattr(e.response, 'text', 'N/A')
response_text(e) == IF e.has_response THEN e.text ELSE NA
\* the status as an f-string prints it
status_text(e) == IF e.has_response THEN ToString(e.status_code) ELSE NA
\* str(e) of the RequestException
str_e(e) == IF e.has_response THEN "HTTPError " \o ToString(e.status_code)
            ELSE "ConnectionError"

\* the error string call_cal_api returns: a Response with an error status is
\* falsy, so err_text is str(e) whether or not there is a response
call_cal_api_err(e) ==
    [kind |-> "err_text", str_e |-> str_e(e), status |-> status_text(e),
     response |-> str_e(e)]

\* call_cal_api moves cal-api-version out of the params dict it was handed
pop_version(p) == Del(p, "cal-api-version")

\* an HTTP exchange as the network sees it: the request as sent, and the
\* response once it has arrived
Pending == [pending |-> TRUE]
Request(method, endpoint, p, b) ==
    [method |-> method, endpoint |-> endpoint, params |-> p, body |-> b,
     response |-> Pending]
IsPending(x) == "pending" \in DOMAIN x.response
Answer(log, resp) == [log EXCEPT ![Len(log)].response = resp]

----------------------------------------------------------------------------
(* parse_to_utc_iso and utc_to_local_display *)

\* Time texts.  kind "utc": a timestamp ending in Z, naming instant t.
\* kind "local": a bare wall-clock time t.  kind "garbage": not a time.
\* kind "None": the argument is missing (args.get gives None).
TimeText(kind, t) == [kind |-> kind, t |-> t]
NoneText == TimeText("None", 0)

\* st.session_state.timezone.split('/')[0] in time_str.upper(): the region
\* names of the session's zones hold lower-case letters, upper-cased text none
region_in_text(tz, time_str) == FALSE

\* lines 17-23: the UTC instant a time text names
resolved_instant(time_str, tz) ==
    IF region_in_text(tz, time_str) THEN time_str.t - utcoffset(tz)
    ELSE IF time_str.kind = "utc" THEN time_str.t
    ELSE time_str.t - lmtoffset(tz)

is_past_le(dt_utc, now_utc) == dt_utc <= now_utc
\* dt_utc < now_utc
is_past(dt_utc, now_utc) == dt_utc < now_utc

\* outcome "ok" with the formatted instant, or the exception that leaves it
parse_to_utc_iso(time_str, tz, now_utc) ==
    IF time_str.kind = "None" THEN [outcome |-> "AttributeError"]
    ELSE IF time_str.kind = "garbage" THEN [outcome |-> "ValueError"]
    ELSE LET dt_utc == resolved_instant(time_str, tz)
         IN  IF is_past(dt_utc, now_utc) THEN [outcome |-> "ValueError"]
             ELSE [outcome |-> "ok", utc |-> strftime_iso(dt_utc)]

\* a timestamp text that dateutil cannot read
GarbageInstant == [garbage |-> TRUE]
\* dtparser.parse(utc_time_str) succeeds
instant_ok(utc_time_str) == "hm" \in DOMAIN utc_time_str

\* utc_to_local_display(utc_time_str): the display of the instant, or "N/A"
\* when dateutil raises ValueError (caught at line 82)
utc_to_local_display(utc_time_str, tz) ==
    IF ~instant_ok(utc_time_str) THEN [na |-> NA]
    ELSE [local |-> dtparse_iso(utc_time_str) + utcoffset(tz), zone |-> tz,
          utc |-> utc_time_str]

----------------------------------------------------------------------------
(* execute_tool: entry, and the ways a dispatch ends *)

ToolNames == {"list_bookings", "get_available_slots", "create_booking", "cancel_booking"}
UnknownNames == {"delete_calendar"}
Names == ToolNames \cup UnknownNames

handler_of_default(name) == IF name \in ToolNames THEN name ELSE "list_bookings"
\* the chain of if name == "..." tests (lines 46, 80, 289, 355) and the
\* fall-through to line 399
handler_of(name) == IF name \in ToolNames THEN name ELSE "unknown"

Entry_tool_only(name, u) == [tool |-> name]
\* debug_info as execute_tool creates it
Entry(name, u) == [tool |-> name, user_input |-> u]

\* the marker for a dict held by reference: debug_info["cal_api"] is
\* cal_api_debug itself, cal_api_debug["params"] is params itself
Ref(v) == "@" \o v

Message(kind) == [kind |-> kind]

\* the error component of a result: None, a caught exception object, or the
\* error string of call_cal_api
None == [kind |-> "None"]
Exc(exception) == [kind |-> "exception", exception |-> exception]

Begin(name, arguments, args, tz, u) ==
    /\ pc = "idle"
    /\ tool_call' = [name |-> name, arguments |-> arguments, args |-> args]
    /\ timezone' = tz
    /\ user_input' = u

\* return (message, error, debug_info)
Return(message, error, dbg) ==
    /\ pc' = "returned"
    /\ result' = [message |-> message, error |-> error]
    /\ debug_info' = dbg

\* an exception leaves execute_tool
Raise(exception, dbg) ==
    /\ pc' = "raised"
    /\ result' = [exception |-> exception]
    /\ debug_info' = dbg

\* the dispatch blocks in an HTTP call
Await(at, log, request, dbg) ==
    /\ pc' = at
    /\ net' = Append(log, request)
    /\ debug_info' = dbg
    /\ UNCHANGED result

Init ==
    /\ pc = "idle"
    /\ clock \in ClockStarts
    /\ timezone = "America/Los_Angeles"
    /\ tool_call = EmptyDict
    /\ user_input = <<>>
    /\ locals = EmptyDict
    /\ params = EmptyDict
    /\ body = EmptyDict
    /\ cal_api_debug = EmptyDict
    /\ debug_info = EmptyDict
    /\ result = EmptyDict
    /\ net = <<>>

\* lines 31-36: the tool call names no function
MissingName(name, tz, u) ==
    /\ name \in {Absent, ""}
    /\ Begin(name, "object", EmptyDict, tz, u)
    /\ Return(Message("something_went_wrong"), None,
              Put(Entry(name, u), "error", "Missing function name"))
    /\ UNCHANGED <<clock, locals, params, body, cal_api_debug, net>>

InvalidJson_uncaught(name, tz, u) ==
    /\ name \in Names
    /\ Begin(name, "malformed", EmptyDict, tz, u)
    /\ Raise("JSONDecodeError", Entry(name, u))
    /\ UNCHANGED <<clock, locals, params, body, cal_api_debug, net>>

\* lines 37-43: json.loads rejects the arguments
InvalidJson(name, tz, u) ==
    /\ name \in Names
    /\ Begin(name, "malformed", EmptyDict, tz, u)
    /\ Return(Message("invalid_input_format"), None,
              Put(Entry(name, u), "error", "Invalid JSON"))
    /\ UNCHANGED <<clock, locals, params, body, cal_api_debug, net>>

\* lines 399-400: no handler matched the name
UnknownTool(name, arguments, tz, u) ==
    /\ handler_of(name) = "unknown"
    /\ arguments \in {"object", "nonobject"}
    /\ Begin(name, arguments, EmptyDict, tz, u)
    /\ Return(Message("unknown_tool"), None,
              Put(Put(Entry(name, u), "arguments", arguments),
                  "error", "Unknown tool requested"))
    /\ UNCHANGED <<clock, locals, params, body, cal_api_debug, net>>

\* the arguments are JSON but no object: args.get raises AttributeError, which
\* only the handler of get_available_slots catches (line 284)
NonObjectArgs(name, tz, u) ==
    /\ handler_of(name) \in ToolNames
    /\ Begin(name, "nonobject", EmptyDict, tz, u)
    /\ LET dbg == Put(Entry(name, u), "arguments", "nonobject")
       IN  IF handler_of(name) = "get_available_slots"
             THEN Return([kind |-> "slots_exception", exception |-> "AttributeError"],
                         Exc("AttributeError"),
                         Put(dbg, "error", "Error in get_available_slots"))
             ELSE Raise("AttributeError", dbg)
    /\ UNCHANGED <<clock, locals, params, body, cal_api_debug, net>>

----------------------------------------------------------------------------
(* list_bookings, lines 46-78 *)

DefaultCount == 10

ListBookings(name, args, tz, u) ==
    /\ handler_of(name) = "list_bookings"
    /\ Begin(name, "object", args, tz, u)
    /\ LET p == Put([status |-> "upcoming", take |-> Get(args, "count", DefaultCount),
                     sort |-> "startTime"], "cal-api-version", "2024-08-13")
       IN  /\ params' = pop_version(p)
           /\ cal_api_debug' = [method |-> "GET", endpoint |-> "/v2/bookings",
                                params |-> Ref("params")]
           /\ Await("wait_list", net,
                    Request("GET", "/v2/bookings", pop_version(p), Absent),
                    Put(Put(Put(Entry(name, u), "arguments", args),
                            "cal_api", Ref("cal_api_debug")),
                        "curl_command", [method |-> "GET", params |-> p,
                                         authorization |-> mask_authorization(authorization_header)]))
    /\ UNCHANGED <<clock, locals, body>>

\* the bookings a successful response lists: [title, uid, start]
BookingLists ==
    { <<>>,
      <<[title |-> "Standup", uid |-> "bk1", start |-> strftime_iso(6 * MinutesPerDay)]>> }

ListBookingsResponse(resp) ==
    /\ pc = "wait_list"
    /\ resp \in Failures \cup {HttpOk(b) : b \in BookingLists}
    /\ IF ~resp.ok
         THEN LET err == call_cal_api_err(resp)
              IN  /\ cal_api_debug' = Put(Put(cal_api_debug, "response",
                                              [data |-> Absent, error |-> err]),
                                          "error", err)
                  /\ Return([kind |-> "error_listing_bookings", err |-> err], err,
                            debug_info)
         ELSE /\ cal_api_debug' = Put(cal_api_debug, "response",
                                      [data |-> resp.data, error |-> None])
              /\ IF resp.data = <<>>
                   THEN Return(Message("no_upcoming_events"), None, debug_info)
                   ELSE Return([kind |-> "bookings",
                                lines |-> [i \in 1..Len(resp.data) |->
                                    [title |-> resp.data[i].title,
                                     at |-> utc_to_local_display(resp.data[i].start, timezone),
                                     uid |-> resp.data[i].uid]]],
                               None, debug_info)
    /\ UNCHANGED <<clock, timezone, tool_call, user_input, locals, params, body>>
    /\ net' = Answer(net, resp)

----------------------------------------------------------------------------
(* create_booking, lines 289-353 *)

USER_EMAIL == "mhuo.live@gmail.com"

min_notice_short(current_time) == current_time + 60
\* min_notice = current_time + timedelta(minutes=120)
min_notice(current_time) == current_time + MinNoticeMinutes

body_start_shifted(start_time_utc, current_time) ==
    IF dtparse_iso(start_time_utc) < current_time + 240
      THEN strftime_iso(current_time + 240) ELSE start_time_utc
\* the "start" of the body built at lines 309-315
body_start(start_time_utc, current_time) == start_time_utc

\* start times around the present: a UTC-tagged instant, the same instant
\* written as the caller's wall clock, or text that is no time
StartOffsets == {0 - 60, 0 - 1, 0, 60, 119, 120, 121, 240}
StartTimes(now, tz) ==
    {TimeText("utc", now + o) : o \in StartOffsets}
    \cup {TimeText("local", now + o + utcoffset(tz)) : o \in StartOffsets}
    \cup {TimeText("garbage", 0), NoneText}

CreateArgs(now, tz) ==
    { Opt("start_time", st) @@ Opt("title", ti) @@ Opt("guests", gu) :
        st \in {<<>>} \cup {<<x>> : x \in StartTimes(now, tz) \ {NoneText}},
        ti \in {<<>>, <<"Sync">>},
        gu \in {<<>>, << <<"ann@example.com">> >>} }

CreateBooking(name, args, tz, u, d) ==
    /\ handler_of(name) = "create_booking"
    /\ Begin(name, "object", args, tz, u)
    /\ clock' = clock + d
    /\ LET start_time == Get(args, "start_time", NoneText)
           title == Get(args, "title", "Meeting")
           guests == Get(args, "guests", <<>>)
           dbg == Put(Entry(name, u), "arguments", args)
           r == parse_to_utc_iso(start_time, tz, clock)
           current_time == clock + d
       IN  IF r.outcome = "AttributeError"
             THEN /\ Raise("AttributeError", dbg)
                  /\ locals' = [now_utc |-> clock]
                  /\ UNCHANGED <<body, cal_api_debug, net>>
           ELSE IF r.outcome = "ValueError"
             THEN /\ Return(Message("invalid_start_time"), None,
                            Put(dbg, "error", "Invalid start time"))
                  /\ locals' = [now_utc |-> clock]
                  /\ UNCHANGED <<body, cal_api_debug, net>>
           ELSE IF dtparse_iso(r.utc) < min_notice(current_time)
             THEN /\ Return([kind |-> "too_soon",
                             display |-> utc_to_local_display(r.utc, tz)], None,
                            Put(dbg, "error", "Start time is too soon"))
                  /\ locals' = [now_utc |-> clock, current_time |-> current_time,
                                start_time_utc |-> r.utc]
                  /\ UNCHANGED <<body, cal_api_debug, net>>
           ELSE LET b == [start |-> body_start(r.utc, current_time),
                          attendee |-> [email |-> USER_EMAIL, name |-> "Mhuo.Live",
                                        timeZone |-> "UTC"],
                          eventTypeSlug |-> EVENT_SLUG,
                          username |-> USERNAME,
                          guests |-> guests]
                    v == ("cal-api-version" :> "2024-08-13")
                IN  /\ body' = b
                    /\ locals' = [now_utc |-> clock, current_time |-> current_time,
                                  start_time_utc |-> r.utc]
                    /\ cal_api_debug' = [method |-> "POST", endpoint |-> "/v2/bookings",
                                         body |-> Ref("body"), params |-> v]
                    /\ Await("wait_post", net,
                             Request("POST", "/v2/bookings", EmptyDict, b),
                             Put(Put(dbg, "cal_api", Ref("cal_api_debug")),
                                 "curl_command", [method |-> "POST", params |-> v,
                                                  body |-> b, authorization |-> mask_authorization(authorization_header)]))
    /\ UNCHANGED params

\* what a successful POST /v2/bookings answers under "data"
BookingData(start) ==
    { [uid |-> "bk9", start |-> start],
      [uid |-> "bk9", start |-> start, startTime |-> start] }

\* lines 341-346: the success path of create_booking
booking_created(data, tz) ==
    LET uid == Get(data, "uid", NA)
        start == IF Has(data, "startTime") THEN data.startTime
                 ELSE IF Has(data, "start") THEN data.start ELSE Absent
    IN  [kind |-> "booking_created", uid |-> uid,
         display |-> IF Has(data, "startTime") \/ Has(data, "start")
                       THEN utc_to_local_display(start, tz)
                       ELSE [local |-> 0, zone |-> NA, utc |-> strftime_iso(0)]]

\* the response to the POST of create_booking, or to its retry
BookingResponse(resp) ==
    /\ pc \in {"wait_post", "wait_retry_post"}
    /\ resp \in Failures \cup {HttpOk(x) : x \in BookingData(body.start)}
    /\ IF resp.ok
         THEN /\ cal_api_debug' =
                    Put(cal_api_debug,
                        IF pc = "wait_post" THEN "response" ELSE "retry_response",
                        [data |-> resp.data, error |-> None])
              /\ Return(booking_created(resp.data, timezone), None,
                        Put(debug_info, "booking_result", booking_created(resp.data, timezone)))
              /\ net' = Answer(net, resp)
              /\ UNCHANGED body
       ELSE IF pc = "wait_retry_post"
         THEN LET err == call_cal_api_err(resp)
              IN  /\ cal_api_debug' =
                        Put(Put(cal_api_debug, "retry_response",
                                [data |-> Absent, error |-> err]),
                            "retry_error", err)
                  /\ Return([kind |-> "could_not_create_booking", err |-> err], err,
                            debug_info)
                  /\ net' = Answer(net, resp)
                  /\ UNCHANGED body
       ELSE LET err == call_cal_api_err(resp)
                dbgapi == Put(Put(cal_api_debug, "response",
                                  [data |-> Absent, error |-> err]),
                              "error", err)
            IN  /\ cal_api_debug' = dbgapi
                /\ IF Has(body, "description")
                     THEN /\ body' = Del(body, "description")
                          /\ Await("wait_retry_post", Answer(net, resp),
                                   Request("POST", "/v2/bookings", EmptyDict,
                                           Del(body, "description")),
                                   debug_info)
                     \* data is None: data.get raises AttributeError, which
                     \* except requests.RequestException does not catch
                     ELSE /\ Raise("AttributeError", debug_info)
                          /\ net' = Answer(net, resp)
                          /\ UNCHANGED body
    /\ UNCHANGED <<clock, timezone, tool_call, user_input, locals, params>>

----------------------------------------------------------------------------
(* cancel_booking, lines 355-398 *)

not_uid_none_only(booking_uid) == booking_uid = Absent
\* not booking_uid
not_uid(booking_uid) == booking_uid \in {Absent, ""}

CancelArgs ==
    { Opt("booking_uid", b) @@ Opt("reason", r) :
        b \in {<<>>, <<"">>, <<"bk1">>}, r \in {<<>>, <<"conflict">>} }

CancelBooking(name, args, tz, u) ==
    /\ handler_of(name) = "cancel_booking"
    /\ Begin(name, "object", args, tz, u)
    /\ LET booking_uid == Get(args, "booking_uid", Absent)
           reason == Get(args, "reason", "")
           dbg == Put(Entry(name, u), "arguments", args)
       IN  IF not_uid(booking_uid)
             THEN /\ Return(Message("provide_booking_uid"), None,
                            Put(dbg, "error", "Missing booking UID"))
                  /\ UNCHANGED <<params, body, cal_api_debug, net>>
             ELSE LET url == <<"/v2/bookings", booking_uid, "cancel">>
                      b == [cancellationReason |-> reason]
                      p == Put([allRemainingBookings |-> "false"],
                               "cal-api-version", "2024-08-13")
                  IN  /\ body' = b
                      /\ params' = pop_version(p)
                      /\ cal_api_debug' = [method |-> "POST", endpoint |-> url,
                                           body |-> Ref("body"), params |-> Ref("params")]
                      /\ Await("wait_cancel", net,
                               Request("POST", url, pop_version(p), b),
                               Put(Put(dbg, "cal_api", Ref("cal_api_debug")),
                                   "curl_command", [method |-> "POST", params |-> p,
                                                    body |-> b, authorization |-> mask_authorization(authorization_header)]))
    /\ UNCHANGED <<clock, locals>>

CancelResponse(resp) ==
    /\ pc = "wait_cancel"
    /\ resp \in Failures \cup {HttpOk([status |-> "success"])}
    /\ IF resp.ok
         THEN /\ cal_api_debug' = Put(cal_api_debug, "response",
                                      [data |-> resp.data, error |-> None])
              /\ Return(Message("booking_canceled"), None,
                        Put(debug_info, "cancel_result", tool_call.args.booking_uid))
         \* err is a string: err.response raises AttributeError inside a try
         \* that catches json.JSONDecodeError only, under an except
         \* requests.RequestException
         ELSE /\ cal_api_debug' = Put(cal_api_debug, "response",
                                      [data |-> Absent, error |-> call_cal_api_err(resp)])
              /\ Raise("AttributeError", debug_info)
    /\ UNCHANGED <<clock, timezone, tool_call, user_input, locals, params, body>>
    /\ net' = Answer(net, resp)

----------------------------------------------------------------------------
(* get_available_slots, lines 80-287 *)

DefaultSlotMinutes == 30

\* lines 100-104: the raw user text overrides the duration argument
adjust_duration(duration_seconds, u) ==
    IF contains(u, <<"week">>) THEN IntVal(WeekSeconds)
    ELSE IF contains(u, <<"month">>) \/ contains(u, <<"30", "days">>)
      THEN IntVal(MonthSeconds)
    ELSE duration_seconds

\* lines 105-109: keywords in start_date and in the raw user text
resolve_start_date(start_date, u, current_time) ==
    IF start_date.kind \in {"today", "empty"} THEN IsoDate(DayOf(current_time))
    ELSE IF \/ start_date.kind = "tomorrow"
            \/ contains(u, <<"tomorrow">>)
            \/ contains(u, <<"show", "my", "slots">>)
      THEN IsoDate(DayOf(current_time + MinutesPerDay))
    ELSE start_date

\* lines 120-136: the end date taken from the argument or calculated
choose_end_date(end_date, calculated_end_date) ==
    IF end_date.kind = "empty" THEN calculated_end_date
    ELSE IF ~dtparser_ok(end_date) THEN calculated_end_date
    ELSE IF end_date.day # calculated_end_date.day THEN calculated_end_date
    ELSE end_date

correct_start_never(start_date, current_time) == start_date
\* lines 141-146: a start date before today (UTC) becomes today
correct_start(start_date, current_time) ==
    IF start_date.day < DayOf(current_time) THEN IsoDate(DayOf(current_time))
    ELSE start_date

correct_end_keep(end_date, start_date, duration_seconds) == end_date
\* lines 147-151: an end date before the start date is recomputed
correct_end(end_date, start_date, duration_seconds) ==
    IF end_date.day < start_date.day
      THEN IsoDate(plus_seconds(start_date.day, duration_seconds))
      ELSE end_date

\* the window computed by lines 82-159 from the arguments; ok is FALSE when
\* strptime rejects the end date (line 152)
resolve_window(args, u, current_time, now_local) ==
    LET start0 == resolve_start_date(Get(args, "start_date", EmptyText), u, current_time)
        today_str == IsoDate(DayOf(current_time))
        start1 == validate_date(start0, today_str, now_local)
        dur == validate_duration_seconds(
                   adjust_duration(Get(args, "duration", IntVal(DefaultDurationSeconds)), u))
        calc == IsoDate(plus_seconds(start1.day, dur))
        end1 == choose_end_date(Get(args, "end_date", EmptyText), calc)
        start2 == correct_start(start1, current_time)
        end2 == correct_end(end1, start2, dur)
    IN  [ok |-> strptime_ok(end1),
         end_date_warning |-> end1 # Get(args, "end_date", EmptyText)
                                /\ Get(args, "end_date", EmptyText).kind # "empty",
         end_date_corrected |-> strptime_ok(end1) /\ end1.day < start2.day,
         resolved_start_date |-> start0,
         validated_start_date |-> start1,
         validated_duration_seconds |-> dur,
         calculated_end_date |-> calc,
         start_date |-> IF strptime_ok(end1) THEN start2 ELSE start1,
         end_date |-> IF strptime_ok(end1) THEN end2 ELSE end1]

\* f"{start_date}T00:00:00Z" and f"{end_date}T23:59:59Z"
start_iso(date) == [date |-> date, time |-> "00:00:00Z"]
end_iso(date) == [date |-> date, time |-> "23:59:59Z"]

\* lines 222-223: the alternative window of the third attempt
alt_start(current_time) == start_iso(IsoDate(DayOf(current_time + AltStartDays * MinutesPerDay)))
alt_end(current_time) == end_iso(IsoDate(DayOf(current_time + AltEndDays * MinutesPerDay)))

\* the start dates, end dates and durations the intent source may supply
StartDateTexts(today) ==
    {DateText(k, 0) : k \in {"empty", "today", "tomorrow", "garbage"}}
    \cup {DateText(k, n) : k \in {"iso", "unpadded"}, n \in (today - DaySpan)..(today + DaySpan)}
EndDateTexts(today) ==
    {DateText("garbage", 0)}
    \cup {DateText(k, n) : k \in {"iso", "other"}, n \in (today - DaySpan)..(today + DaySpan)}
DurationValues ==
    {IntVal(n) : n \in {0, 1, SecondsPerDay, MAX_DURATION_SECONDS,
                        MAX_DURATION_SECONDS + 1}} \cup {TextVal}

SlotsArgs(today) ==
    { Opt("start_date", sd) @@ Opt("end_date", ed) @@ Opt("duration", du) :
        sd \in {<<>>} \cup {<<x>> : x \in StartDateTexts(today)},
        ed \in {<<>>} \cup {<<x>> : x \in EndDateTexts(today)},
        du \in {<<>>} \cup {<<x>> : x \in DurationValues} }

\* the texts a slot_minutes argument may hold: a first token that int()
\* accepts (n is its value) or rejects, then a unit word ("" when the text
\* is the first token alone); the empty text has neither
IntToken(n) == [int |-> TRUE, n |-> n]
WordToken == [int |-> FALSE, n |-> 0]
DurationStr(head, unit) == [kind |-> "str", empty |-> FALSE, head |-> head, unit |-> unit]
EmptyStr == [kind |-> "str", empty |-> TRUE, head |-> WordToken, unit |-> ""]
FloatVal == [kind |-> "float"]

\* str(slot_minutes) of an int or a str
str(value) ==
    IF value.kind = "int" THEN DurationStr(IntToken(value.n), "") ELSE value

\* "second" in s, "min" in s or "minute" in s, "hr" in s or "hour" in s
has_second(unit) == unit \in {"second", "seconds"}
has_min(unit) == unit \in {"min", "mins", "minute", "minutes"}
has_hr(unit) == unit \in {"hr", "hrs", "hour", "hours"}

max(a, b) == IF a >= b THEN a ELSE b

parse_duration_unclamped(duration_str) ==
    IF duration_str.empty THEN 30
    ELSE IF has_second(duration_str.unit)
      THEN IF duration_str.head.int THEN duration_str.head.n \div 60 ELSE 30
    ELSE IF has_min(duration_str.unit)
      THEN IF duration_str.head.int THEN duration_str.head.n ELSE 30
    ELSE IF has_hr(duration_str.unit)
      THEN IF duration_str.head.int THEN duration_str.head.n * 60 ELSE 30
    ELSE IF duration_str.unit = "" /\ duration_str.head.int
      THEN duration_str.head.n
      ELSE 30
\* cal_utils.py lines 40-56: int() of the first token raises ValueError on a
\* token that is no integer, int() of the whole text on a text with an
\* unknown unit; both are caught and give 30
parse_duration(duration_str) ==
    IF duration_str.empty THEN 30
    ELSE IF has_second(duration_str.unit)
      THEN IF duration_str.head.int THEN max(1, duration_str.head.n \div 60) ELSE 30
    ELSE IF has_min(duration_str.unit)
      THEN IF duration_str.head.int THEN max(1, duration_str.head.n) ELSE 30
    ELSE IF has_hr(duration_str.unit)
      THEN IF duration_str.head.int THEN max(1, duration_str.head.n * 60) ELSE 30
    ELSE IF duration_str.unit = "" /\ duration_str.head.int
      THEN max(1, duration_str.head.n)
      ELSE 30

\* line 160: slot_minutes = args.get("slot_minutes", 30)
slot_duration_minutes(args) ==
    LET slot_minutes == Get(args, "slot_minutes", IntVal(DefaultSlotMinutes))
    IN  IF slot_minutes.kind \in {"int", "str"} THEN parse_duration(str(slot_minutes))
        ELSE 30

\* the slot_minutes arguments the intent source may supply
DurationNumbers == {-90, 0, 1, 59, 90, 125}
UnitWords == {"", "seconds", "min", "minutes", "hr", "hours", "days"}
SlotMinutesValues ==
    {IntVal(n) : n \in DurationNumbers}
    \cup {DurationStr(IntToken(n), unit) : n \in DurationNumbers, unit \in UnitWords}
    \cup {DurationStr(WordToken, unit) : unit \in UnitWords}
    \cup {EmptyStr, FloatVal}
SlotMinutesArgs == {Opt("slot_minutes", sm) : sm \in {<<>>} \cup {<<x>> : x \in SlotMinutesValues}}

\* lines 165-172: the params of the primary request
slot_params(w, minutes) ==
    [eventTypeSlug |-> EVENT_SLUG, username |-> USERNAME,
     start |-> start_iso(w.start_date), end |-> end_iso(w.end_date),
     duration |-> minutes, format |-> "range"]

\* lines 173-178: the headers of the slot requests, Authorization included
slot_headers == [Authorization |-> authorization_header,
                 version |-> "2024-09-04"]

GetAvailableSlots(name, args, tz, u, d) ==
    /\ handler_of(name) = "get_available_slots"
    /\ Begin(name, "object", args, tz, u)
    /\ clock' = clock + d
    /\ LET current_time == clock
           w == resolve_window(args, u, current_time, clock + d + utcoffset(tz))
           dbga == Put(Put(Put(Put(Put(Entry(name, u), "arguments", args),
                       "slot_params", [start_date |-> Get(args, "start_date", EmptyText),
                                       end_date |-> Get(args, "end_date", EmptyText)]),
                       "validated_start_date", w.validated_start_date),
                       "validated_duration_seconds", w.validated_duration_seconds),
                       "calculated_end_date", w.calculated_end_date)
           dbg0 == IF w.end_date_warning
                     THEN Put(dbga, "end_date_warning", w.calculated_end_date)
                     ELSE dbga
       IN  /\ locals' = [current_time |-> current_time, start_date |-> w.start_date,
                         end_date |-> w.end_date,
                         duration_seconds |-> w.validated_duration_seconds,
                         resolved_start_date |-> w.resolved_start_date]
           /\ IF ~w.ok
                THEN /\ Return(Message("invalid_date_format"), Exc("ValueError"),
                               Put(dbg0, "error", "Date validation error"))
                     /\ UNCHANGED <<params, cal_api_debug, net>>
                ELSE LET dbg1 == IF w.start_date # w.validated_start_date
                                   THEN Put(dbg0, "start_date_corrected", w.start_date)
                                   ELSE dbg0
                         dbgc == IF w.end_date_corrected
                                   THEN Put(dbg1, "end_date_corrected", w.end_date)
                                   ELSE dbg1
                         dbg2 == Put(Put(dbgc, "utc_date_range",
                                         [start |-> start_iso(w.start_date),
                                          end |-> end_iso(w.end_date)]),
                                     "slot_duration_minutes", slot_duration_minutes(args))
                     IN  /\ params' = slot_params(w, slot_duration_minutes(args))
                         /\ cal_api_debug' = [method |-> "GET", endpoint |-> "/v2/slots",
                                              params |-> Ref("params"),
                                              headers |-> slot_headers]
                         /\ Await("wait_slots1", net,
                                  Request("GET", "/v2/slots", slot_params(w, slot_duration_minutes(args)), Absent),
                                  Put(Put(dbg2, "cal_api", Ref("cal_api_debug")),
                                      "curl_command", [method |-> "GET",
                                                       params |-> slot_params(w, slot_duration_minutes(args)),
                                                       authorization |-> mask_authorization(authorization_header)]))
    /\ UNCHANGED body

\* what a successful GET /v2/slots answers under "data": per date, a list of
\* slots, each with its start
SlotData ==
    { <<>>,
      << [date |-> 6,
          slots |-> << [start |-> strftime_iso(6 * MinutesPerDay + 600)],
                       [start |-> strftime_iso(6 * MinutesPerDay + 630)] >>] >>,
      \* dates not in ascending order, a slot whose start is no timestamp and
      \* a slot without a start
      << [date |-> 7,
          slots |-> << [start |-> strftime_iso(7 * MinutesPerDay + 540)] >>],
         [date |-> 6,
          slots |-> << [start |-> GarbageInstant],
                       [id |-> 7],
                       [start |-> strftime_iso(6 * MinutesPerDay + 600)] >>] >> }

RECURSIVE flatten(_)
\* lines 251-274: the slots of every date, in the order of the response
flatten(slots_data) ==
    IF Len(slots_data) = 0 THEN <<>>
    ELSE Head(slots_data).slots \o flatten(Tail(slots_data))

truncate_last(slots, count) ==
    IF Len(slots) > count THEN SubSeq(slots, Len(slots) - count + 1, Len(slots)) ELSE slots
\* lines 278-281
truncate(slots, count) == IF Len(slots) > count THEN SubSeq(slots, 1, count) ELSE slots

\* lines 259-263: slot.get("start", "N/A") yields a start
has_start(slot) == Has(slot, "start")
no_start(slot) == ~Has(slot, "start")

\* lines 264-270: the line of a slot, f"- {display_time} (UTC: {start_time_utc})"
slot_line(slot, tz) ==
    [display |-> utc_to_local_display(slot.start, tz), utc |-> slot.start]

\* lines 250-275: the lines of the slots that have a start, in the order of
\* the response
processed_slots(slots_data, tz) ==
    LET with_start == SelectSeq(flatten(slots_data), has_start)
    IN  [i \in 1..Len(with_start) |-> slot_line(with_start[i], tz)]

\* lines 260-263: one warning for each slot without a start
slot_warnings(slots_data) == SelectSeq(flatten(slots_data), no_start)

\* lines 245-283: the result of a tier that succeeded
slots_message(slots_data, args, tz, loc) ==
    LET slots == processed_slots(slots_data, tz)
        shown == truncate(slots, Get(args, "count", DefaultCount))
    IN  IF Len(slots_data) = 0 \/ Len(shown) = 0
          THEN [kind |-> "no_available_slots", start_date |-> loc.start_date,
                end_date |-> loc.end_date]
          ELSE [kind |-> "slots", lines |-> shown]

SlotsSuccess(resp, key) ==
    /\ cal_api_debug' = Put(cal_api_debug, key, [data |-> resp.data, error |-> None])
    /\ Return(slots_message(resp.data, tool_call.args, timezone, locals), None,
              IF Len(resp.data) = 0 THEN Put(debug_info, "slots_data", resp.data)
              ELSE LET dbg == Put(Put(debug_info, "slots_data", resp.data),
                                  "processed_slots",
                                  processed_slots(resp.data, timezone))
                   IN  IF Len(slot_warnings(resp.data)) = 0 THEN dbg
                       ELSE Put(dbg, "warnings", slot_warnings(resp.data)))
    /\ net' = Answer(net, resp)
    /\ UNCHANGED params

\* f"Status {error_status}, Response {error_response}, Headers {error_headers}"
failure_note(e) == [status |-> status_text(e), response |-> response_text(e)]

slot_failure_blank(e) == [data |-> Absent, error |-> NA]
\* lines 194-200, 214-220, 235-241: what the handler records of a failure
slot_failure(e) == [data |-> Absent, error |-> response_text(e)]

retry_when_any_failure(e) == TRUE
\* line 201: if error_status == 404
retry_when(e) == status_is_404(e)

retry_params_keep_slug(p) == Put(p, "eventTypeId", FallbackEventTypeId)
\* lines 203-204: the numeric identifier replaces the slug
retry_params(p) == Del(Put(p, "eventTypeId", FallbackEventTypeId), "eventTypeSlug")

alt_params_same_window(p, current_time) == p
\* lines 224-225: the alternative window replaces the requested one
alt_params(p, current_time) ==
    [p EXCEPT !.start = alt_start(current_time), !.end = alt_end(current_time)]

\* the response to the primary request (lines 188-207, 243-244)
SlotsResponse1(resp) ==
    /\ pc = "wait_slots1"
    /\ resp \in Failures \cup {HttpOk(x) : x \in SlotData}
    /\ IF resp.ok THEN SlotsSuccess(resp, "response")
       ELSE LET dbgapi == Put(Put(cal_api_debug, "error", failure_note(resp)),
                              "response", slot_failure(resp))
            IN  IF retry_when(resp)
                  THEN /\ params' = retry_params(params)
                       /\ cal_api_debug' = Put(Put(dbgapi, "retry_params", Ref("params")),
                                               "retry_curl_command",
                                               [method |-> "GET",
                                                params |-> retry_params(params),
                                                authorization |-> mask_authorization(authorization_header)])
                       /\ Await("wait_slots2", Answer(net, resp),
                                Request("GET", "/v2/slots", retry_params(params), Absent),
                                debug_info)
                  \* line 244 reads err, which this branch never assigned:
                  \* UnboundLocalError, caught at line 284
                  ELSE /\ cal_api_debug' = dbgapi
                       /\ Return([kind |-> "slots_exception",
                                  exception |-> "UnboundLocalError"],
                                 Exc("UnboundLocalError"),
                                 Put(debug_info, "error", "Error in get_available_slots"))
                       /\ net' = Answer(net, resp)
                       /\ UNCHANGED params
    /\ UNCHANGED <<clock, timezone, tool_call, user_input, locals, body>>

\* the response to the request with the numeric identifier (lines 208-228)
SlotsResponse2(resp) ==
    /\ pc = "wait_slots2"
    /\ resp \in Failures \cup {HttpOk(x) : x \in SlotData}
    /\ IF resp.ok THEN SlotsSuccess(resp, "retry_response")
       ELSE LET dbgapi == Put(Put(cal_api_debug, "retry_error", failure_note(resp)),
                              "retry_response", slot_failure(resp))
                p == alt_params(params, locals.current_time)
            IN  /\ params' = p
                /\ cal_api_debug' = Put(Put(dbgapi, "alt_params", Ref("params")),
                                        "alt_curl_command",
                                        [method |-> "GET", params |-> p,
                                         authorization |-> mask_authorization(authorization_header)])
                /\ Await("wait_slots3", Answer(net, resp),
                         Request("GET", "/v2/slots", p, Absent), debug_info)
    /\ UNCHANGED <<clock, timezone, tool_call, user_input, locals, body>>

\* the response to the request over the alternative window (lines 229-242)
SlotsResponse3(resp) ==
    /\ pc = "wait_slots3"
    /\ resp \in Failures \cup {HttpOk(x) : x \in SlotData}
    /\ IF resp.ok THEN SlotsSuccess(resp, "alt_response")
       ELSE /\ cal_api_debug' = Put(Put(cal_api_debug, "alt_error", failure_note(resp)),
                                    "alt_response", slot_failure(resp))
            /\ Return([kind |-> "no_slots_all_failed",
                       start_date |-> locals.start_date, end_date |-> locals.end_date,
                       alt_start |-> alt_start(locals.current_time),
                       alt_end |-> alt_end(locals.current_time),
                       error_response |-> response_text(resp)],
                      None, debug_info)
            /\ net' = Answer(net, resp)
            /\ UNCHANGED params
    /\ UNCHANGED <<clock, timezone, tool_call, user_input, locals, body>>

----------------------------------------------------------------------------
(* The specification: one dispatch per behaviour *)

Today == DayOf(clock)

\* the slot arguments of the full dispatcher: a sample of SlotsArgs
DispatchSlotsArgs(today) ==
    { Opt("start_date", sd) @@ Opt("end_date", ed) @@ Opt("duration", du) @@ Opt("count", co) :
        sd \in {<<>>, <<IsoDate(today - 1)>>, <<DateText("tomorrow", 0)>>},
        ed \in {<<>>, <<DateText("other", today + 1)>>},
        du \in {<<>>, <<IntVal(0)>>},
        co \in {<<>>, <<0>>, <<1>>, <<2>>} }

Next ==
    \/ /\ pc = "idle"
       /\ \E name \in {Absent, ""}, tz \in Timezones, u \in UserTexts :
              MissingName(name, tz, u)
    \/ /\ pc = "idle"
       /\ \E name \in Names, tz \in Timezones, u \in UserTexts :
              InvalidJson(name, tz, u)
    \/ /\ pc = "idle"
       /\ \E name \in Names, a \in {"object", "nonobject"}, tz \in Timezones,
             u \in UserTexts : UnknownTool(name, a, tz, u)
    \/ /\ pc = "idle"
       /\ \E name \in Names, tz \in Timezones, u \in UserTexts :
              NonObjectArgs(name, tz, u)
    \/ /\ pc = "idle"
       /\ \E name \in Names, args \in {EmptyDict, ("count" :> 3)}, tz \in Timezones,
             u \in UserTexts :
              ListBookings(name, args, tz, u)
    \/ /\ pc = "wait_list"
       /\ \E resp \in Failures \cup {HttpOk(b) : b \in BookingLists} :
              ListBookingsResponse(resp)
    \/ /\ pc = "idle"
       /\ \E name \in Names, tz \in Timezones, u \in UserTexts, d \in 0..MaxTick :
              \E args \in CreateArgs(clock, tz) : CreateBooking(name, args, tz, u, d)
    \/ /\ pc \in {"wait_post", "wait_retry_post"}
       /\ \E resp \in Failures \cup {HttpOk(x) : x \in BookingData(body.start)} :
              BookingResponse(resp)
    \/ /\ pc = "idle"
       /\ \E name \in Names, args \in CancelArgs, tz \in Timezones, u \in UserTexts :
              CancelBooking(name, args, tz, u)
    \/ /\ pc = "wait_cancel"
       /\ \E resp \in Failures \cup {HttpOk([status |-> "success"])} : CancelResponse(resp)
    \/ /\ pc = "idle"
       /\ \E name \in Names, tz \in Timezones, u \in UserTexts, d \in 0..MaxTick :
              \E args \in DispatchSlotsArgs(Today) : GetAvailableSlots(name, args, tz, u, d)
    \/ /\ pc = "wait_slots1"
       /\ \E resp \in Failures \cup {HttpOk(x) : x \in SlotData} : SlotsResponse1(resp)
    \/ /\ pc = "wait_slots2"
       /\ \E resp \in Failures \cup {HttpOk(x) : x \in SlotData} : SlotsResponse2(resp)
    \/ /\ pc = "wait_slots3"
       /\ \E resp \in Failures \cup {HttpOk(x) : x \in SlotData} : SlotsResponse3(resp)

Spec == Init /\ [][Next]_vars

\* The window computation alone: get_available_slots up to its primary
\* request, over every combination of the date, duration and text inputs
WindowNext ==
    /\ pc = "idle"
    /\ \E name \in Names, tz \in Timezones, u \in UserTexts, d \in 0..MaxTick :
          \E args \in SlotsArgs(Today) : GetAvailableSlots(name, args, tz, u, d)

WindowSpec == Init /\ [][WindowNext]_vars

\* The slot length alone: get_available_slots up to its primary request, over
\* the slot_minutes arguments
DurationNext ==
    /\ pc = "idle"
    /\ \E name \in Names, tz \in Timezones, u \in UserTexts, d \in 0..MaxTick :
          \E args \in SlotMinutesArgs : GetAvailableSlots(name, args, tz, u, d)

DurationSpec == Init /\ [][DurationNext]_vars

----------------------------------------------------------------------------
(* Properties *)

Dispatched == pc # "idle"
Ended == pc \in {"returned", "raised"}
IsTool(name) == Dispatched /\ tool_call.name = name /\ tool_call.arguments = "object"
Failed(x) == ~IsPending(x) /\ ~x.response.ok
Is404(x) == Failed(x) /\ x.response.has_response /\ x.response.status_code = 404
BookingPosts == {i \in 1..Len(net) : net[i].method = "POST" /\ net[i].endpoint = "/v2/bookings"}

\* C1: for every tool call and every outcome of the remote service,
\* execute_tool returns a (message, error, trace) triple and never ends by
\* raising to its caller, also when the create-booking POST or the
\* cancel-booking POST fails.  Stated for the requests whose arguments are a
\* JSON object that holds the keys the handler needs, which are the requests
\* the claim singles out.
C1_NeverRaises ==
    (/\ Dispatched
     /\ tool_call.arguments = "object"
     /\ handler_of(tool_call.name) = "create_booking" => Has(tool_call.args, "start_time"))
        => pc # "raised"

\* the start instant a create_booking request resolves to, when its
\* start_time is a time
HasStartInstant ==
    /\ IsTool("create_booking")
    /\ Has(tool_call.args, "start_time")
    /\ tool_call.args.start_time.kind \in {"utc", "local"}
StartInstant == resolved_instant(tool_call.args.start_time, timezone)

\* C2 as stated: a booking whose resolved start instant is before
\* now + 120 minutes, instants before now included, ends with the too-soon
\* result.
C2_TooSoonAlsoWhenPast ==
    (HasStartInstant /\ StartInstant < locals.now_utc + 120)
        => (pc = "returned" /\ result.message.kind = "too_soon")

\* C2 amended: a booking whose resolved start instant is not before now and
\* is before now + 120 minutes ends with the too-soon result and no request,
\* whatever title and guests are; an instant before now ends with the
\* invalid-start-time result instead.
C2_TooSoon ==
    HasStartInstant =>
        /\ (StartInstant >= locals.now_utc /\ StartInstant < locals.current_time + 120)
              => (pc = "returned" /\ result.message.kind = "too_soon" /\ net = <<>>)
        /\ StartInstant < locals.now_utc
              => (pc = "returned" /\ result.message.kind = "invalid_start_time" /\ net = <<>>)

C2_Witness ==
    /\ HasStartInstant
    /\ pc = "returned" /\ result.message.kind = "too_soon"
    /\ tool_call.args.start_time.kind = "local"
    /\ StartInstant >= locals.now_utc + 60
    /\ Has(tool_call.args, "guests")

\* C3: a POST to /v2/bookings is issued only if the resolved start instant is
\* at least 120 minutes after now, and the start of every submitted body is
\* the resolved start instant of the request.
C3_PostOnlyWithNotice ==
    \A i \in BookingPosts :
        /\ HasStartInstant
        /\ StartInstant >= locals.current_time + 120
        /\ net[i].body.start = strftime_iso(StartInstant)

C3_Witness ==
    /\ BookingPosts # {}
    /\ StartInstant = locals.current_time + 120
    /\ locals.current_time > locals.now_utc

IsSlots == Dispatched /\ handler_of(tool_call.name) = "get_available_slots"

\* C4: after a 404 to the primary slot request the next request has the same
\* window and the numeric identifier 3854203 in place of the slug; after a
\* failure of that one the next request has the window from now + 7 days
\* 00:00:00Z to now + 14 days 23:59:59Z; after a failure of that one too the
\* dispatch returns a message naming the requested and the alternative
\* window and holding the body of the last error.
C4_FallbackChain ==
    IsSlots =>
        /\ (Len(net) >= 1 /\ Is404(net[1])) =>
              /\ Len(net) >= 2
              /\ net[2].params.start = net[1].params.start
              /\ net[2].params.end = net[1].params.end
              /\ Has(net[2].params, "eventTypeId")
              /\ net[2].params.eventTypeId = 3854203
              /\ ~Has(net[2].params, "eventTypeSlug")
        /\ (Len(net) >= 2 /\ Failed(net[2])) =>
              /\ Len(net) >= 3
              /\ net[3].params.start =
                    [date |-> IsoDate(DayOf(locals.current_time) + 7), time |-> "00:00:00Z"]
              /\ net[3].params.end =
                    [date |-> IsoDate(DayOf(locals.current_time) + 14), time |-> "23:59:59Z"]
        /\ (Len(net) >= 3 /\ Failed(net[3])) =>
              /\ pc = "returned"
              /\ result.message.kind = "no_slots_all_failed"
              /\ result.message.start_date = net[1].params.start.date
              /\ result.message.end_date = net[1].params.end.date
              /\ result.message.alt_start = net[3].params.start
              /\ result.message.alt_end = net[3].params.end
              /\ net[3].response.has_response =>
                    result.message.error_response = net[3].response.text

C4_Witness ==
    /\ IsSlots /\ Len(net) = 3 /\ Failed(net[3]) /\ pc = "returned"
    /\ net[3].response.has_response /\ net[2].response.has_response
    /\ net[3].response.text # net[2].response.text
    /\ net[1].params.start # net[3].params.start

\* C5: the request with the numeric identifier is issued only after a 404 to
\* the primary request; after a primary failure with another status or with
\* no response at all no further slot request is issued.
C5_FallbackOnlyOn404 ==
    IsSlots =>
        /\ Len(net) >= 2 => Is404(net[1])
        /\ (Len(net) >= 1 /\ Failed(net[1]) /\ ~Is404(net[1])) =>
              (Len(net) = 1 /\ pc = "returned")

C5_Witness ==
    /\ IsSlots /\ Len(net) = 1 /\ Failed(net[1]) /\ ~net[1].response.has_response
    /\ pc = "returned"

\* C7: a cancel_booking dispatch whose booking_uid is empty or missing
\* returns the validation failure at once: no network call, no HTTP call in
\* the trace.
C7_CancelWithoutUid ==
    (IsTool("cancel_booking") /\ Get(tool_call.args, "booking_uid", "") = "") =>
        /\ pc = "returned"
        /\ result.message.kind = "provide_booking_uid"
        /\ net = <<>>
        /\ ~Has(debug_info, "cal_api")
        /\ ~Has(debug_info, "curl_command")

C7_Witness ==
    /\ IsTool("cancel_booking") /\ Has(tool_call.args, "booking_uid")
    /\ tool_call.args.booking_uid = "" /\ pc = "returned"

\* C8 as stated: a dispatch whose operation name is none of the four returns
\* the unknown-tool result and makes no network call.  Stated for the
\* dispatches that do give a name.
C8_UnknownAlways ==
    (Dispatched /\ tool_call.name \notin ToolNames \cup {Absent, ""}) =>
        (pc = "returned" /\ result.message.kind = "unknown_tool" /\ net = <<>>)

\* C8 amended: a dispatch whose operation name is none of the four makes no
\* network call and returns; it returns the unknown-tool result when the name
\* is present and the argument payload parses, the missing-name result when
\* no name is given, and the invalid-input result when the payload does not
\* parse.
C8_Unknown ==
    (Dispatched /\ tool_call.name \notin ToolNames) =>
        /\ pc = "returned"
        /\ net = <<>>
        /\ result.message.kind =
              IF tool_call.name \in {Absent, ""} THEN "something_went_wrong"
              ELSE IF tool_call.arguments = "malformed" THEN "invalid_input_format"
              ELSE "unknown_tool"

C8_Witness ==
    /\ Dispatched /\ tool_call.name = "delete_calendar"
    /\ tool_call.arguments = "object" /\ result.message.kind = "unknown_tool"

\* the duration handed to the validation: the duration argument (86400 when
\* missing), or the value a keyword of the raw user text puts in its place
GivenDuration ==
    adjust_duration(Get(tool_call.args, "duration", IntVal(DefaultDurationSeconds)),
                    user_input)

\* C9 as stated: a duration outside [1, 31536000] is validated to the nearest
\* bound, 1 below the range and 31536000 above it; a duration inside the
\* range is unchanged.
C9_NearestBound ==
    (IsSlots /\ tool_call.arguments = "object" /\ GivenDuration.kind = "int") =>
        locals.duration_seconds =
            IF GivenDuration.n < 1 THEN 1
            ELSE IF GivenDuration.n > 31536000 THEN 31536000
            ELSE GivenDuration.n

\* C9 amended: a duration outside [1, 31536000] is validated to 31536000,
\* below the range as well as above it (and so is a non-numeric one); a
\* duration inside the range is unchanged.
C9_OutsideGivesCeiling ==
    (IsSlots /\ tool_call.arguments = "object") =>
        locals.duration_seconds =
            IF GivenDuration.kind = "int" /\ GivenDuration.n >= 1
                   /\ GivenDuration.n <= 31536000
              THEN GivenDuration.n ELSE 31536000

C9_Witness ==
    /\ IsSlots /\ tool_call.arguments = "object"
    /\ GivenDuration.kind = "int" /\ GivenDuration.n < 1
    /\ locals.duration_seconds = 31536000

\* C10: when the start date resolves to a calendar date before today (UTC),
\* in either display timezone, the window of the slot request starts today
\* (UTC); resolving the healed date again leaves it unchanged.
C10_PastStartHealed ==
    (IsSlots /\ tool_call.arguments = "object" /\ Len(net) >= 1
       /\ strptime_ok(locals.resolved_start_date)
       /\ locals.resolved_start_date.day < DayOf(locals.current_time)) =>
        /\ locals.start_date = IsoDate(DayOf(locals.current_time))
        /\ net[1].params.start.date = IsoDate(DayOf(locals.current_time))
        /\ \A tz \in Timezones :
              resolve_window(Put(tool_call.args, "start_date", locals.start_date),
                             user_input, locals.current_time,
                             clock + utcoffset(tz)).start_date = locals.start_date

\* the local date is behind UTC and the start date is the local today: only
\* the final pass of the handler heals it
C10_Witness ==
    /\ IsSlots /\ tool_call.arguments = "object" /\ Len(net) >= 1
    /\ timezone = "America/Los_Angeles"
    /\ Has(tool_call.args, "start_date")
    /\ tool_call.args.start_date = IsoDate(DayOf(locals.current_time) - 1)
    /\ debug_info.validated_start_date = tool_call.args.start_date
    /\ locals.start_date = IsoDate(DayOf(locals.current_time))

\* a slot dispatch that reached its primary request
SentPrimary == IsSlots /\ tool_call.arguments = "object" /\ Len(net) >= 1

\* the duration argument is an integer inside [1, MAX_DURATION_SECONDS]
ValidDuration ==
    /\ GivenDuration.kind = "int"
    /\ GivenDuration.n >= 1 /\ GivenDuration.n <= MAX_DURATION_SECONDS

\* C11: for a valid start date and a valid duration, the end date of the
\* window sent is the calendar date of (start date of the window sent +
\* duration), also when the start date was corrected to today by the final
\* pass; an explicit end_date that agrees with that date is the same date.
C11_EndIsStartPlusDuration ==
    (SentPrimary /\ strptime_ok(locals.resolved_start_date) /\ ValidDuration) =>
        net[1].params.end.date.day =
            plus_seconds(net[1].params.start.date.day, locals.duration_seconds)

\* the instant a day-boundary text of the window names
window_instant(iso) ==
    iso.date.day * MinutesPerDay + (IF iso.time = "00:00:00Z" THEN 0 ELSE MinutesPerDay - 1)

\* C12: every primary slot request has a window whose start instant is not
\* after its end instant and whose start date is not before today (UTC, the
\* day of the handler's now), whatever start_date, end_date, duration, raw
\* user text and display timezone are.
C12_WindowOrdered ==
    SentPrimary =>
        /\ window_instant(net[1].params.start) <= window_instant(net[1].params.end)
        /\ net[1].params.start.date.day <= net[1].params.end.date.day
        /\ net[1].params.start.date.day >= DayOf(locals.current_time)
        /\ net[1].params.start.time = "00:00:00Z"
        /\ net[1].params.end.time = "23:59:59Z"

\* both corrections of the final pass acted: the start was moved to today and
\* the end, then before the start, was recomputed
C12_Witness ==
    /\ SentPrimary
    /\ Has(debug_info, "start_date_corrected")
    /\ Has(debug_info, "end_date_corrected")
    /\ net[1].params.end.date.day = DayOf(locals.current_time)

\* C13: a get_available_slots request whose raw user text is "show my slots"
\* and whose arguments give no start_date (and no duration) is sent with a
\* window that starts on tomorrow's calendar date (UTC), and its duration is
\* 86400 seconds.
C13_ShowMySlotsTomorrow ==
    (/\ SentPrimary
     /\ user_input = <<"show", "my", "slots">>
     /\ ~Has(tool_call.args, "start_date")
     /\ ~Has(tool_call.args, "duration")) =>
        /\ locals.resolved_start_date = IsoDate(DayOf(locals.current_time) + 1)
        /\ net[1].params.start.date = IsoDate(DayOf(locals.current_time) + 1)
        /\ locals.duration_seconds = 86400

\* C14: the window validation of get_available_slots rejects no request: for
\* every start_date text, every end_date text (a date or not, in any
\* notation) and every duration value, the handler issues the primary slot
\* request and does not return a date-validation error.
C14_NeverRejects ==
    (IsSlots /\ tool_call.arguments = "object") =>
        /\ Len(net) >= 1
        /\ ~(pc = "returned" /\ result.message.kind = "invalid_date_format")

\* what the entry key of cal_api_debug shows when the trace is read: an entry
\* that holds the params object shows the present content of that object
shown(key) == IF cal_api_debug[key] = Ref("params") THEN params ELSE cal_api_debug[key]

\* C15: the trace is append-only.  After a get_available_slots run that went
\* on to the request with the numeric identifier, the trace's record of the
\* primary request still shows the parameters that request was sent with (the
\* slug and the requested window); after the third request the records of the
\* three attempts differ from one another.
C15_TraceAppendOnly ==
    IsSlots =>
        /\ Len(net) >= 2 =>
              /\ shown("params") = net[1].params
              /\ Has(shown("params"), "eventTypeSlug")
        /\ Len(net) >= 3 =>
              /\ shown("params").start = net[1].params.start
              /\ shown("params") # shown("retry_params")
              /\ shown("retry_params") # shown("alt_params")
              /\ shown("params") # shown("alt_params")

\* the text holds the full API key
holds_key(text) ==
    \E i \in 1..Len(text) :
        /\ i + Len(CAL_API_KEY) - 1 <= Len(text)
        /\ SubSeq(text, i, i + Len(CAL_API_KEY) - 1) = CAL_API_KEY

\* the Authorization values the returned trace holds: in the curl commands
\* and in the headers entry of the call record
credentials_in_trace ==
    (IF Has(debug_info, "curl_command") THEN {debug_info.curl_command.authorization}
     ELSE {})
    \cup {cal_api_debug[k].authorization :
            k \in {"retry_curl_command", "alt_curl_command"} \cap DOMAIN cal_api_debug}
    \cup (IF Has(debug_info, "cal_api") /\ Has(cal_api_debug, "headers")
            THEN {cal_api_debug.headers.Authorization} ELSE {})

\* C16: for every operation and every outcome, no entry of the trace that
\* execute_tool returns holds the full API key: the trace shows the
\* credential in masked form only.
C16_CredentialMasked ==
    pc = "returned" => \A c \in credentials_in_trace : ~holds_key(c)

\* the last HTTP exchange of the dispatch
LastExchange == net[Len(net)]

\* the message or the error of the returned result holds the status or the
\* body of the response
carries(resp) ==
    LET parts == {result.message, result.error}
                 \cup (IF Has(result.message, "err") THEN {result.message.err} ELSE {})
    IN  \E v \in parts :
            \/ Has(v, "status") /\ v.status = ToString(resp.status_code)
            \/ Has(v, "response") /\ v.response = resp.text
            \/ Has(v, "error_response") /\ v.error_response = resp.text

\* the dispatch ended on a failure for which no retry policy exists
EndedOnUnretriedFailure ==
    /\ Ended /\ Len(net) >= 1 /\ Failed(LastExchange)
    /\ \/ handler_of(tool_call.name) \in {"list_bookings", "cancel_booking"}
       \/ handler_of(tool_call.name) = "create_booking" /\ ~Has(body, "description")
       \/ handler_of(tool_call.name) = "get_available_slots"
            /\ Len(net) = 1 /\ ~Is404(LastExchange)

\* C17: a dispatch that ends on a remote failure for which no retry policy
\* applies returns a result, and when the failure is an HTTP response the
\* message or the error of that result carries its status or its body.
C17_FailureSurfaced ==
    EndedOnUnretriedFailure =>
        /\ pc = "returned"
        /\ LastExchange.response.has_response => carries(LastExchange.response)

\* C18 as stated: at every tier of the slot fallback every failure leads to
\* the step a transport failure (no HTTP response) leads to: at the primary
\* request the error result, at the second request the third request, at
\* the third request the all-tiers-failed result.
C18_TransportLikeAnyFailure ==
    IsSlots =>
        /\ (Len(net) >= 1 /\ Failed(net[1])) =>
              (Len(net) = 1 /\ pc = "returned" /\ result.message.kind = "slots_exception")
        /\ (Len(net) >= 2 /\ Failed(net[2])) => Len(net) >= 3
        /\ (Len(net) >= 3 /\ Failed(net[3])) =>
              (pc = "returned" /\ result.message.kind = "no_slots_all_failed")

\* C18 amended: a transport failure leads to the step that a non-2xx response
\* other than 404 leads to.  At the primary request both end the dispatch
\* with the same error result and no further request (only a 404 moves on to
\* the second request); at the second request every failure, with or without
\* a response, moves on to the third; at the third request every failure
\* returns the all-tiers-failed result, which holds the body of the response
\* or 'N/A' when there is none.
C18_TransportLikeNon404 ==
    IsSlots =>
        /\ (Len(net) >= 1 /\ Failed(net[1]) /\ ~Is404(net[1])) =>
              /\ Len(net) = 1 /\ pc = "returned"
              /\ result.message = [kind |-> "slots_exception",
                                   exception |-> "UnboundLocalError"]
              /\ result.error = Exc("UnboundLocalError")
        /\ (Len(net) >= 2 /\ Failed(net[2])) => Len(net) >= 3
        /\ (Len(net) >= 3 /\ Failed(net[3])) =>
              /\ pc = "returned" /\ result.message.kind = "no_slots_all_failed"
              /\ result.error = None
              /\ result.message.error_response =
                    IF net[3].response.has_response THEN net[3].response.text ELSE "N/A"

\* transport failures at the second and at the third request
C18_Witness ==
    /\ IsSlots /\ Len(net) = 3 /\ pc = "returned"
    /\ Failed(net[2]) /\ ~net[2].response.has_response
    /\ Failed(net[3]) /\ ~net[3].response.has_response
    /\ result.message.error_response = "N/A"

\* C19: round trip.  For a start time written as a bare local time in the
\* caller's timezone that parse_to_utc_iso accepts, utc_to_local_display of
\* the instant it returns shows the same local wall-clock time.
C19_RoundTrip ==
    (/\ HasStartInstant
     /\ tool_call.args.start_time.kind = "local"
     /\ Has(locals, "start_time_utc")) =>
        utc_to_local_display(locals.start_time_utc, timezone).local =
            tool_call.args.start_time.t

\* C20: a dispatch with one of the four operation names whose argument
\* payload json.loads rejects ends before any handler runs: it returns the
\* invalid-input result with no error object, makes no network call, and
\* its trace holds the parse error and neither arguments nor a call record.
C20_MalformedRejected ==
    (Dispatched /\ tool_call.name \in ToolNames /\ tool_call.arguments = "malformed") =>
        /\ pc = "returned"
        /\ result.message.kind = "invalid_input_format"
        /\ result.error = None
        /\ net = <<>>
        /\ Has(debug_info, "error") /\ debug_info.error = "Invalid JSON"
        /\ ~Has(debug_info, "arguments")
        /\ ~Has(debug_info, "cal_api")
        /\ locals = EmptyDict /\ params = EmptyDict /\ body = EmptyDict

C20_Witness ==
    /\ Dispatched /\ tool_call.name = "create_booking"
    /\ tool_call.arguments = "malformed"
    /\ pc = "returned" /\ debug_info.tool = "create_booking"

\* the entry of cal_api_debug that records the answer to the i-th slot request
response_key(i) == IF i = 1 THEN "response" ELSE IF i = 2 THEN "retry_response"
                   ELSE "alt_response"

\* C21: in get_available_slots the requests go out in the order primary
\* (slug), Fallback A (numeric identifier), Fallback B (alternative window);
\* a request is issued only when every earlier one has failed and its failure
\* is recorded in the trace; nothing is issued after a success; at most three
\* slot requests are issued.
C21_TiersInOrder ==
    IsSlots =>
        /\ Len(net) <= 3
        /\ \A i \in 1..Len(net) :
              /\ net[i].method = "GET" /\ net[i].endpoint = "/v2/slots"
              /\ i < Len(net) =>
                    /\ Failed(net[i])
                    /\ Has(cal_api_debug, response_key(i))
                    /\ cal_api_debug[response_key(i)].error = response_text(net[i].response)
              /\ (~IsPending(net[i]) /\ net[i].response.ok) =>
                    (i = Len(net) /\ pc = "returned")
              /\ IsPending(net[i]) => (i = Len(net) /\ pc = "wait_slots" \o ToString(i))
        /\ Len(net) >= 1 => Has(net[1].params, "eventTypeSlug")
        /\ Len(net) >= 2 =>
              /\ Has(net[2].params, "eventTypeId")
              /\ net[2].params.start = net[1].params.start
        /\ Len(net) >= 3 =>
              /\ Has(net[3].params, "eventTypeId")
              /\ net[3].params.start = alt_start(locals.current_time)

\* the third request was issued after two recorded failures, and succeeded
C21_Witness ==
    /\ IsSlots /\ Len(net) = 3 /\ pc = "returned"
    /\ ~net[2].response.has_response
    /\ net[3].response.ok
    /\ Has(cal_api_debug, "alt_response")

\* a slot tier succeeded and the dispatch returned its slots
TierSucceeded ==
    /\ IsSlots /\ pc = "returned" /\ Len(net) >= 1
    /\ LastExchange.response.ok

\* the slots of the successful response, in its order
ReturnedSlots == flatten(LastExchange.response.data)

\* the trace holds a warning for the slot
warned(slot) ==
    /\ Has(debug_info, "warnings")
    /\ \E i \in 1..Len(debug_info.warnings) : debug_info.warnings[i] = slot

\* C22: when a slot tier succeeds, a returned slot whose start is present and
\* cannot be read as an instant is left out of the rendered list, a warning
\* for it is in the trace, and the dispatch returns the other slots with no
\* error.
C22_MalformedDropped ==
    (TierSucceeded /\ ~Has(tool_call.args, "count")) =>
        \A i \in 1..Len(ReturnedSlots) :
            (has_start(ReturnedSlots[i]) /\ ~instant_ok(ReturnedSlots[i].start)) =>
                /\ result.error = None
                /\ result.message.kind = "slots"
                /\ \A j \in 1..Len(result.message.lines) :
                      result.message.lines[j].utc # ReturnedSlots[i].start
                /\ warned(ReturnedSlots[i])

\* the rendered list of the returned result (the no-slots message has none)
RenderedLines == IF result.message.kind = "slots" THEN result.message.lines ELSE <<>>

\* the count argument, 10 when none is supplied
CountLimit == Get(tool_call.args, "count", 10)

\* C23 as stated: when a slot tier succeeds the rendered list is a prefix of
\* the flattened per-date slot sequence of the response, entry for entry, and
\* has at most count entries.
C23_PrefixOfFlattened ==
    TierSucceeded =>
        /\ Len(RenderedLines) <= Len(ReturnedSlots)
        /\ \A j \in 1..Len(RenderedLines) :
              /\ has_start(ReturnedSlots[j])
              /\ RenderedLines[j].utc = ReturnedSlots[j].start
        /\ Len(RenderedLines) <= CountLimit

\* C23 amended: when a slot tier succeeds the rendered list is a prefix of
\* the flattened per-date slot sequence of the response without the entries
\* that have no start, in the order of the response (dates and slots as the
\* response lists them, never re-sorted); it has count entries when more
\* than count remain (10 when no count is supplied) and all of them
\* otherwise.
C23_PrefixOfKept ==
    TierSucceeded =>
        LET kept == SelectSeq(ReturnedSlots, has_start)
        IN  /\ Len(RenderedLines) =
                  IF Len(kept) > CountLimit THEN CountLimit ELSE Len(kept)
            /\ \A j \in 1..Len(RenderedLines) :
                  /\ RenderedLines[j].utc = kept[j].start
                  /\ RenderedLines[j].display = utc_to_local_display(kept[j].start, timezone)

\* the response lists a later date first, three of its slots have a start and
\* the count argument 2 cuts the list
C23_Witness ==
    /\ TierSucceeded
    /\ Has(tool_call.args, "count") /\ tool_call.args.count = 2
    /\ Len(ReturnedSlots) = 4
    /\ Len(RenderedLines) = 2
    /\ RenderedLines[1].utc.date = 7

\* the slot_minutes argument of the dispatch and the minutes the primary
\* request asks for
SlotMinutesArg == Get(tool_call.args, "slot_minutes", IntVal(DefaultSlotMinutes))
RequestedMinutes == net[1].params.duration
NumberWithUnit(value, units) ==
    /\ value.kind = "str" /\ ~value.empty
    /\ value.head.int /\ value.unit \in units
BareInteger(value) ==
    \/ value.kind = "int"
    \/ value.kind = "str" /\ ~value.empty /\ value.head.int /\ value.unit = ""
Unparsable(value) ==
    /\ value.kind = "str"
    /\ \/ value.empty
       \/ ~value.head.int
       \/ value.unit \notin {"", "second", "seconds", "min", "mins", "minute",
                             "minutes", "hr", "hrs", "hour", "hours"}

\* C24: the slot length parse_duration gives the primary request is an
\* integer of at least 1; "n seconds" gives n div 60 floored at 1, "n min"
\* gives n floored at 1, "n hr" gives 60n floored at 1, a bare integer n gives
\* n floored at 1, and an empty or unparsable text gives 30
C24_ParseDuration ==
    SentPrimary =>
        /\ RequestedMinutes \in Int /\ RequestedMinutes >= 1
        /\ debug_info.slot_duration_minutes = RequestedMinutes
        /\ NumberWithUnit(SlotMinutesArg, {"second", "seconds"}) =>
              RequestedMinutes = IF SlotMinutesArg.head.n >= 60
                                   THEN SlotMinutesArg.head.n \div 60 ELSE 1
        /\ NumberWithUnit(SlotMinutesArg, {"min", "mins", "minute", "minutes"}) =>
              RequestedMinutes = IF SlotMinutesArg.head.n >= 1
                                   THEN SlotMinutesArg.head.n ELSE 1
        /\ NumberWithUnit(SlotMinutesArg, {"hr", "hrs", "hour", "hours"}) =>
              RequestedMinutes = IF SlotMinutesArg.head.n >= 1
                                   THEN 60 * SlotMinutesArg.head.n ELSE 1
        /\ BareInteger(SlotMinutesArg) =>
              RequestedMinutes = IF str(SlotMinutesArg).head.n >= 1
                                   THEN str(SlotMinutesArg).head.n ELSE 1
        /\ Unparsable(SlotMinutesArg) => RequestedMinutes = 30

\* a request whose slot length came from "0 min", floored to 1
C24_Witness ==
    /\ SentPrimary
    /\ SlotMinutesArg = DurationStr(IntToken(0), "min")
    /\ RequestedMinutes = 1

\* a create_booking dispatch whose start_time argument is a text
HasStartText == IsTool("create_booking") /\ Has(tool_call.args, "start_time")
\* the dispatch ended with the invalid-start-time result, having neither read
\* the clock for the notice check nor sent a request
AbortedInvalidStart ==
    /\ pc = "returned"
    /\ result.message.kind = "invalid_start_time"
    /\ result.error = None
    /\ debug_info.error = "Invalid start time"
    /\ ~Has(locals, "current_time")
    /\ net = <<>>

\* C25: a create_booking whose start_time is no time, or resolves to an
\* instant before the clock read by parse_to_utc_iso, ends with the
\* invalid-start-time result before the notice check and with no request
\* sent; one that resolves to exactly that clock reading does not end with
\* the invalid-start-time result
C25_InvalidStartAborts ==
    HasStartText =>
        /\ tool_call.args.start_time.kind = "garbage" => AbortedInvalidStart
        /\ (HasStartInstant /\ StartInstant < locals.now_utc) => AbortedInvalidStart
        /\ (HasStartInstant /\ StartInstant = locals.now_utc)
              => /\ ~AbortedInvalidStart
                 /\ Has(locals, "current_time")
                 /\ pc = "returned" => result.message.kind = "too_soon"

\* a booking for the very instant of the clock reading, answered by the
\* notice check
C25_Witness ==
    /\ HasStartInstant
    /\ tool_call.args.start_time.kind = "utc"
    /\ StartInstant = locals.now_utc
    /\ pc = "returned" /\ result.message.kind = "too_soon"

\* the trace holds, under the key of the i-th request, what that request was
\* answered: the data of a success, the error text of a failure
Recorded(i) ==
    /\ Has(cal_api_debug, response_key(i))
    /\ IF net[i].response.ok
         THEN /\ cal_api_debug[response_key(i)].data = net[i].response.data
              /\ cal_api_debug[response_key(i)].error = None
         ELSE /\ cal_api_debug[response_key(i)].data = Absent
              /\ cal_api_debug[response_key(i)].error =
                    IF handler_of(tool_call.name) = "get_available_slots"
                      THEN response_text(net[i].response)
                      ELSE call_cal_api_err(net[i].response)

\* C26: a dispatch that returns a result returns a trace that names the tool
\* and the raw user text, and that holds, for every request sent during the
\* dispatch, a record of its response or of its error, reachable from the
\* trace under "cal_api"
C26_TraceComplete ==
    pc = "returned" =>
        /\ Has(debug_info, "tool") /\ debug_info.tool = tool_call.name
        /\ Has(debug_info, "user_input") /\ debug_info.user_input = user_input
        /\ Len(net) >= 1 =>
              /\ Has(debug_info, "cal_api")
              /\ debug_info.cal_api = Ref("cal_api_debug")
        /\ \A i \in 1..Len(net) : Recorded(i)

\* a slot lookup that returned slots from Fallback B after two failures, all
\* three exchanges on record
C26_Witness ==
    /\ pc = "returned" /\ IsSlots /\ Len(net) = 3
    /\ net[3].response.ok /\ result.message.kind = "slots"
    /\ user_input # <<>>
    /\ \A i \in 1..3 : Recorded(i)

\* the duration part of C27 alone: with "week" in the raw user text the
\* duration the window is computed from is 604800 seconds, whatever the
\* duration argument
WeekOverridesDuration ==
    (SentPrimary /\ contains(user_input, <<"week">>)) =>
        /\ locals.duration_seconds = 604800
        /\ debug_info.validated_duration_seconds = 604800

\* C27: in get_available_slots, with "week" in the raw user text the duration
\* used is 604800 seconds whatever the duration argument, and with "tomorrow"
\* in the raw user text the start date resolved from the arguments, and the
\* start of the request, is tomorrow's calendar date (UTC) whatever the
\* start_date argument
C27_KeywordsOverride ==
    /\ WeekOverridesDuration
    /\ (SentPrimary /\ contains(user_input, <<"tomorrow">>)) =>
          /\ locals.resolved_start_date = IsoDate(DayOf(locals.current_time) + 1)
          /\ net[1].params.start.date = IsoDate(DayOf(locals.current_time) + 1)

\* the event identifiers a request's params hold
EventIdentifiers(p) == {k \in {"eventTypeSlug", "eventTypeId"} : Has(p, k)}

\* C28: every request get_available_slots sends carries exactly one event
\* identifier: the primary request the slug and no numeric identifier, the
\* second and the third request the numeric identifier and no slug
C28_OneEventIdentifier ==
    IsSlots =>
        \A i \in 1..Len(net) :
            /\ Cardinality(EventIdentifiers(net[i].params)) = 1
            /\ i = 1 => /\ EventIdentifiers(net[i].params) = {"eventTypeSlug"}
                        /\ net[i].params.eventTypeSlug = EVENT_SLUG
            /\ i > 1 => /\ EventIdentifiers(net[i].params) = {"eventTypeId"}
                        /\ net[i].params.eventTypeId = FallbackEventTypeId

\* all three requests sent, the last one over the alternative window
C28_Witness ==
    /\ IsSlots /\ Len(net) = 3
    /\ EventIdentifiers(net[1].params) = {"eventTypeSlug"}
    /\ EventIdentifiers(net[2].params) = {"eventTypeId"}
    /\ EventIdentifiers(net[3].params) = {"eventTypeId"}
    /\ net[3].params.start # net[2].params.start

====
